---- MODULE Spec2Model ----
(***************************************************************************)
(* Model of xclim/indices/indices.py: the climate indicators that reduce   *)
(* boolean event series with the run-length engine (xclim.run_length) and  *)
(* the percentile indicators that align a day-of-year threshold curve to a *)
(* target series (xclim.utils.adjust_doy_calendar, DataArray.sel), with    *)
(* rain_on_frozen_ground_days, liquid_precip_ratio and winter_rain_ratio.  *)
(*                                                                         *)
(* Temperatures are integers in hundredths of a degree, precipitation in   *)
(* hundredths of a mm/day.  A model year has YearLen days ("noleap") or    *)
(* YearLen + 1 days ("all_leap"), standing for 365 and 366.                *)
(***************************************************************************)
EXTENDS Integers, Sequences, FiniteSets

VARIABLES
    arr,      \* boolean sequence handed to one invocation of the run-length engine
    tas,      \* daily mean temperature, a DataArray
    tasmin,   \* daily minimum temperature, a DataArray on the same time axis
    tasmax,   \* daily maximum temperature, a DataArray on the same time axis
    pr,       \* daily precipitation, a DataArray
    per,      \* day-of-year percentile curve (tn10, tx90, t10, t90)
    out,      \* the last call and what it returned
    scan      \* the engine's scan of arr, entry by entry

vars == <<arr, tas, tasmin, tasmax, pr, per, out, scan>>

(***************************************************************************)
(* Bounds                                                                  *)
(***************************************************************************)
MaxLen == 6        \* longest boolean sequence given to the engine directly
MaxDays == 4       \* longest daily series given to an indicator
MaxWindow == 3     \* largest window argument
YearLen == 3       \* days of a model year on the short ("noleap") calendar
MaxFrozenDays == 9 \* longest daily series given to rain_on_frozen_ground_days
SeasonLen == 1     \* days of a model season
MaxSeasonDays == 5 \* longest daily series given to the seasonal indicators

Windows == -1 .. MaxWindow
Booleans == {TRUE, FALSE}

(***************************************************************************)
(* Small helpers                                                           *)
(***************************************************************************)
RECURSIVE SeqSum(_)
SeqSum(q) == IF q = <<>> THEN 0 ELSE Head(q) + SeqSum(Tail(q))

RECURSIVE SeqMax(_)
SeqMax(q) == IF q = <<>> THEN 0
             ELSE LET m == SeqMax(Tail(q)) IN IF Head(q) > m THEN Head(q) ELSE m

SeqsUpTo(S, n) == UNION {[1 .. k -> S] : k \in 0 .. n}

(***************************************************************************)
(* Run-length engine (xclim.run_length): one linear scan over the group.   *)
(* scan state: cur = length of the run being read, runs = lengths of the   *)
(* runs completed so far, in order.                                        *)
(***************************************************************************)
ScanStart == [cur |-> 0, runs |-> <<>>]

\* ScanVisit emitting the run at a false without starting the counter afresh
ScanVisit_no_reset(st, b) ==
    IF b THEN [cur |-> st.cur + 1, runs |-> st.runs]
    ELSE IF st.cur > 0 THEN [cur |-> st.cur, runs |-> Append(st.runs, st.cur)]
    ELSE st

\* visit one entry: a true extends the current run, a false emits it
ScanVisit(st, b) ==
    IF b THEN [cur |-> st.cur + 1, runs |-> st.runs]
    ELSE IF st.cur > 0 THEN [cur |-> 0, runs |-> Append(st.runs, st.cur)]
    ELSE st

\* ScanFlush forgetting the run that is still open at the end of the group
ScanFlush_never(st) == st.runs

\* end of group: the run still open, if any, is emitted
ScanFlush(st) == IF st.cur > 0 THEN Append(st.runs, st.cur) ELSE st.runs

RECURSIVE ScanFrom(_, _, _)
ScanFrom(st, s, i) ==
    IF i > Len(s) THEN st ELSE ScanFrom(ScanVisit(st, s[i]), s, i + 1)

\* lengths of the runs of true of s, in time order
rle(s) == ScanFlush(ScanFrom(ScanStart, s, 1))

\* AtLeast keeping the runs of exactly window entries only
AtLeast_exactly(runs, window) == SelectSeq(runs, LAMBDA l : l = window)

\* AtLeast leaving out the runs of exactly window entries
AtLeast_longer(runs, window) == SelectSeq(runs, LAMBDA l : l > window)

AtLeast(runs, window) == SelectSeq(runs, LAMBDA l : l >= window)

longest_run(s) == SeqMax(rle(s))

windowed_run_count(s, window) == Len(AtLeast(rle(s), window))

windowed_run_events(s, window) == SeqSum(AtLeast(rle(s), window))

(***************************************************************************)
(* Time axis and resampling.  A timestamp is [year, doy]; a daily series   *)
(* holds days in increasing order.  A DataArray is [time, units, data].    *)
(* An entry of a float array of counts is a count or NaN, which is written *)
(* as a number that no count takes.                                        *)
(***************************************************************************)
NaN == -1

Calendars == {"noleap", "all_leap"}

\* number of days of a year on calendar cal
DaysInYear(cal) == IF cal = "all_leap" THEN YearLen + 1 ELSE YearLen

\* n consecutive days on calendar cal, the first one day-of-year start of year 0
TimeAxis(cal, start, n) ==
    [k \in 1 .. n |->
        LET o == (start - 1) + (k - 1)
        IN  [year |-> o \div DaysInYear(cal), doy |-> (o % DaysInYear(cal)) + 1]]

\* n days on calendar cal of which the first at are consecutive from
\* day-of-year start of year 0 on, and the others follow after skip missing days
GapAxis(cal, start, n, at, skip) ==
    [k \in 1 .. n |->
        LET o == (start - 1) + (k - 1) + (IF k > at THEN skip ELSE 0)
        IN  [year |-> o \div DaysInYear(cal), doy |-> (o % DaysInYear(cal)) + 1]]

\* tasmin.indexes['time'].dayofyear
dayofyear(time) == [k \in 1 .. Len(time) |-> time[k].doy]

Freqs == {"YS", "AS-JUL"}

\* The seasonal indicators are given series on a time axis whose years run
\* from 1 December to 30 November and hold four seasons of SeasonLen days.
SeasonAxis(start, n) ==
    [k \in 1 .. n |->
        LET o == (start - 1) + (k - 1)
        IN  [year |-> o \div (4 * SeasonLen), doy |-> (o % (4 * SeasonLen)) + 1]]

\* month in which each of the four seasons of such a year starts
SeasonStartMonth == <<12, 3, 6, 9>>

\* first day-of-year of the second half of the model year (July 1st)
JulyDoy == (YearLen \div 2) + 1

\* label of the period a timestamp falls in
PeriodOf(t, freq) ==
    IF freq = "YS" THEN t.year
    ELSE IF freq = "QS-DEC" THEN (4 * t.year) + ((t.doy - 1) \div SeasonLen)
    ELSE IF t.doy >= JulyDoy THEN t.year ELSE t.year - 1

\* index of the last entry of the period that starts at index i
RECURSIVE PeriodEnd(_, _, _)
PeriodEnd(time, freq, i) ==
    IF i < Len(time) /\ PeriodOf(time[i + 1], freq) = PeriodOf(time[i], freq)
    THEN PeriodEnd(time, freq, i + 1)
    ELSE i

\* the periods of a time axis, in order, each as <<first index, last index>>
RECURSIVE PeriodsFrom(_, _, _)
PeriodsFrom(time, freq, i) ==
    IF i > Len(time) THEN <<>>
    ELSE LET e == PeriodEnd(time, freq, i)
         IN  <<(<<i, e>>)>> \o PeriodsFrom(time, freq, e + 1)

\* the periods from the first to the last timestamp, those without a
\* timestamp included, as the number of periods after the first one
FullIndex(time, freq) ==
    0 .. (PeriodOf(time[Len(time)], freq) - PeriodOf(time[1], freq))

\* resample handing each period everything from the start of the series on
resample_from_start(time, data, freq) ==
    LET ps == PeriodsFrom(time, freq, 1)
        at(l) == {g \in 1 .. Len(ps) :
                    PeriodOf(time[ps[g][1]], freq) = PeriodOf(time[1], freq) + l}
    IN  [i \in 1 .. Cardinality(FullIndex(time, freq)) |->
            IF at(i - 1) = {} THEN <<>>
            ELSE LET g == CHOOSE g \in at(i - 1) : TRUE
                 IN  SubSeq(data, 1, ps[g][2])]

\* resample handing each period the day before its first day as well
resample_overlapping(time, data, freq) ==
    LET ps == PeriodsFrom(time, freq, 1)
        at(l) == {g \in 1 .. Len(ps) :
                    PeriodOf(time[ps[g][1]], freq) = PeriodOf(time[1], freq) + l}
    IN  [i \in 1 .. Cardinality(FullIndex(time, freq)) |->
            IF at(i - 1) = {} THEN <<>>
            ELSE LET g == CHOOSE g \in at(i - 1) : TRUE
                     a == IF ps[g][1] > 1 THEN ps[g][1] - 1 ELSE 1
                 IN  SubSeq(data, a, ps[g][2])]

\* da.resample(time=freq): the data of each period of the full index, in
\* order; a period without timestamp has no data
resample(time, data, freq) ==
    LET ps == PeriodsFrom(time, freq, 1)
        at(l) == {g \in 1 .. Len(ps) :
                    PeriodOf(time[ps[g][1]], freq) = PeriodOf(time[1], freq) + l}
    IN  [i \in 1 .. Cardinality(FullIndex(time, freq)) |->
            IF at(i - 1) = {} THEN <<>>
            ELSE LET g == CHOOSE g \in at(i - 1) : TRUE
                 IN  SubSeq(data, ps[g][1], ps[g][2])]

\* ratio.indexes['time'].month: the month of the first day of each period of
\* a seasonal resampling
label_month(time, freq) ==
    [i \in 1 .. Cardinality(FullIndex(time, freq)) |->
        SeasonStartMonth[((PeriodOf(time[1], freq) + (i - 1)) % 4) + 1]]

\* the reduction of a period: the periods without data are not reduced, the
\* result is reindexed to the full index and holds NaN for them
restore_empty_groups(group, v) == IF group = <<>> THEN NaN ELSE v

\* group.apply(rl.longest_run, dim='time'): one value per period
apply_longest_run(groups) ==
    [g \in 1 .. Len(groups) |-> restore_empty_groups(groups[g], longest_run(groups[g]))]

\* group.apply(rl.windowed_run_count, window=window, dim='time')
apply_windowed_run_count(groups, window) ==
    [g \in 1 .. Len(groups) |->
        restore_empty_groups(groups[g], windowed_run_count(groups[g], window))]

\* group.apply(rl.windowed_run_events, window=window, dim='time')
apply_windowed_run_events(groups, window) ==
    [g \in 1 .. Len(groups) |->
        restore_empty_groups(groups[g], windowed_run_events(groups[g], window))]

(***************************************************************************)
(* Unit system (xclim.utils.convert_units_to, units.convert).              *)
(***************************************************************************)
\* 0 degC in K, in hundredths of a degree
ZeroCelsius == 27315

\* the magnitude val, given in units from, expressed in units to; precipitation
\* is always given in mm/day here, so that its thresholds need no rescaling
convert(val, from, to) ==
    IF from = to THEN val
    ELSE IF from = "degC" /\ to = "K" THEN val + ZeroCelsius
    ELSE IF from = "K" /\ to = "degC" THEN val - ZeroCelsius
    ELSE val

\* utils.convert_units_to(thresh, da) for a threshold string such as '22.0 degC'
convert_units_to(thresh, da) == convert(thresh.val, thresh.units, da.units)

\* default value of the thresh argument of maximum_consecutive_dry_days
DryThresh == [val |-> 100, units |-> "mm/day"]
\* default values of thresh_tasmin and thresh_tasmax of the heat wave indicators
HeatThreshTasmin == [val |-> 2200, units |-> "degC"]
HeatThreshTasmax == [val |-> 3000, units |-> "degC"]

(***************************************************************************)
(* What a call leaves behind: the function, its window and freq arguments, *)
(* the error raised ("" when none), the value returned (one entry per      *)
(* period, <<>> when an error was raised), the threshold series built by a *)
(* percentile indicator and the steps performed, in order.                 *)
(***************************************************************************)
NoCall == [fn |-> "", window |-> 0, freq |-> "", error |-> "", value |-> <<>>,
           thresh |-> <<>>, steps |-> <<>>]

Returned(fn, window, freq, value, thresh, steps) ==
    [fn |-> fn, window |-> window, freq |-> freq, error |-> "", value |-> value,
     thresh |-> thresh, steps |-> steps]

Raised(fn, window, freq, error, steps) ==
    [fn |-> fn, window |-> window, freq |-> freq, error |-> error, value |-> <<>>,
     thresh |-> <<>>, steps |-> steps]

\* InvalidWindow letting a window of 0 through
InvalidWindow_negative(window) == window < 0

\* a windowed reduction refuses a non-positive window
InvalidWindow(window) == window <= 0

(***************************************************************************)
(* Indicators reducing a boolean series with a fixed threshold.            *)
(***************************************************************************)
\* maximum_consecutive_dry_days taking a day at the threshold for a dry day
maximum_consecutive_dry_days_le(p, thresh, freq) ==
    LET t     == convert_units_to(thresh, p)
        cond  == [k \in 1 .. Len(p.data) |-> p.data[k] <= t]
        group == resample(p.time, cond, freq)
    IN  Returned("maximum_consecutive_dry_days", 0, freq, apply_longest_run(group),
                 <<>>, <<"convert_units", "compare", "resample", "reduce">>)

maximum_consecutive_dry_days(p, thresh, freq) ==
    LET t     == convert_units_to(thresh, p)
        cond  == [k \in 1 .. Len(p.data) |-> p.data[k] < t]
        group == resample(p.time, cond, freq)
    IN  Returned("maximum_consecutive_dry_days", 0, freq, apply_longest_run(group),
                 <<>>, <<"convert_units", "compare", "resample", "reduce">>)

consecutive_frost_days(tn, freq) ==
    LET frz   == IF "degC" # tn.units THEN convert(0, "degC", tn.units) ELSE 0
        cond  == [k \in 1 .. Len(tn.data) |-> tn.data[k] < frz]
        group == resample(tn.time, cond, freq)
    IN  Returned("consecutive_frost_days", 0, freq, apply_longest_run(group),
                 <<>>, <<"convert_units", "compare", "resample", "reduce">>)

\* cond = (tasmin > thresh_tasmin) & (tasmax > thresh_tasmax)
heat_wave_cond(tn, tx, thresh_tasmin, thresh_tasmax) ==
    LET ttx == convert_units_to(thresh_tasmax, tx)
        ttn == convert_units_to(thresh_tasmin, tn)
    IN  [k \in 1 .. Len(tn.data) |-> (tn.data[k] > ttn) /\ (tx.data[k] > ttx)]

\* heat_wave_frequency reducing each period with the other windowed reduction
heat_wave_frequency_count(tn, tx, thresh_tasmin, thresh_tasmax, window, freq) ==
    LET cond  == heat_wave_cond(tn, tx, thresh_tasmin, thresh_tasmax)
        group == resample(tn.time, cond, freq)
    IN  IF InvalidWindow(window)
        THEN Raised("heat_wave_frequency", window, freq, "InvalidWindowError",
                    <<"convert_units", "compare", "resample">>)
        ELSE Returned("heat_wave_frequency", window, freq,
                      apply_windowed_run_count(group, window), <<>>,
                      <<"convert_units", "compare", "resample", "reduce">>)

heat_wave_frequency(tn, tx, thresh_tasmin, thresh_tasmax, window, freq) ==
    LET cond  == heat_wave_cond(tn, tx, thresh_tasmin, thresh_tasmax)
        group == resample(tn.time, cond, freq)
    IN  IF InvalidWindow(window)
        THEN Raised("heat_wave_frequency", window, freq, "InvalidWindowError",
                    <<"convert_units", "compare", "resample">>)
        ELSE Returned("heat_wave_frequency", window, freq,
                      apply_windowed_run_events(group, window), <<>>,
                      <<"convert_units", "compare", "resample", "reduce">>)

\* heat_wave_max_length without the final where(): the longest run as it is
heat_wave_max_length_raw(tn, tx, thresh_tasmin, thresh_tasmax, window, freq) ==
    LET cond  == heat_wave_cond(tn, tx, thresh_tasmin, thresh_tasmax)
        group == resample(tn.time, cond, freq)
    IN  Returned("heat_wave_max_length", window, freq, apply_longest_run(group),
                 <<>>, <<"convert_units", "compare", "resample", "reduce">>)

\* heat_wave_max_length keeping the runs longer than window only
heat_wave_max_length_longer(tn, tx, thresh_tasmin, thresh_tasmax, window, freq) ==
    LET cond  == heat_wave_cond(tn, tx, thresh_tasmin, thresh_tasmax)
        group == resample(tn.time, cond, freq)
        max_l == apply_longest_run(group)
    IN  Returned("heat_wave_max_length", window, freq,
                 [g \in 1 .. Len(max_l) |-> IF max_l[g] # NaN /\ max_l[g] > window THEN max_l[g] ELSE 0],
                 <<>>, <<"convert_units", "compare", "resample", "reduce">>)

\* max_l.where(max_l >= window, 0): a comparison with NaN is false
heat_wave_max_length(tn, tx, thresh_tasmin, thresh_tasmax, window, freq) ==
    LET cond  == heat_wave_cond(tn, tx, thresh_tasmin, thresh_tasmax)
        group == resample(tn.time, cond, freq)
        max_l == apply_longest_run(group)
    IN  Returned("heat_wave_max_length", window, freq,
                 [g \in 1 .. Len(max_l) |-> IF max_l[g] # NaN /\ max_l[g] >= window THEN max_l[g] ELSE 0],
                 <<>>, <<"convert_units", "compare", "resample", "reduce">>)

(***************************************************************************)
(* rain_on_frozen_ground_days                                              *)
(***************************************************************************)
\* default value of the thresh argument, '1 mm/d'
RainThresh == [val |-> 100, units |-> "mm/day"]

\* np.array([0, 0, 0, 0, 0, 0, 0, 1], bool)
FrozenPattern == <<FALSE, FALSE, FALSE, FALSE, FALSE, FALSE, FALSE, TRUE>>

\* func(x, axis): frozen = x == pattern; frozen.all(axis=axis)
func(x) == \A j \in 1 .. Len(FrozenPattern) : x[j] = FrozenPattern[j]

\* cond.rolling(time=8).reduce(func): entry k reduces the window that ends at
\* k; the entries that lack a full window are NaN
rolling_reduce(cond) ==
    LET w == Len(FrozenPattern)
    IN  [k \in 1 .. Len(cond) |->
            IF k < w THEN NaN
            ELSE IF func(SubSeq(cond, (k - w) + 1, k)) THEN 1 ELSE 0]

\* tcond * pcond * 1
times(tcond, pcond) ==
    [k \in 1 .. Len(tcond) |->
        IF tcond[k] = NaN THEN NaN ELSE tcond[k] * (IF pcond[k] THEN 1 ELSE 0)]

\* sum(dim='time') of one period, NaN entries skipped
RECURSIVE nansum(_)
nansum(q) ==
    IF q = <<>> THEN 0
    ELSE (IF Head(q) = NaN THEN 0 ELSE Head(q)) + nansum(Tail(q))

\* rain_on_frozen_ground_days taking a day at 0 degC for a day above freezing
rain_on_frozen_ground_days_ge(p, t, thresh, freq) ==
    LET tt    == convert_units_to(thresh, p)
        frz   == convert(0, "degC", t.units)
        tcond == rolling_reduce([k \in 1 .. Len(t.data) |-> t.data[k] >= frz])
        pcond == [k \in 1 .. Len(p.data) |-> p.data[k] > tt]
        group == resample(p.time, times(tcond, pcond), freq)
    IN  Returned("rain_on_frozen_ground_days", 0, freq,
                 [g \in 1 .. Len(group) |-> restore_empty_groups(group[g], nansum(group[g]))],
                 <<>>,
                 <<"convert_units", "rolling", "compare", "resample", "reduce">>)

rain_on_frozen_ground_days(p, t, thresh, freq) ==
    LET tt    == convert_units_to(thresh, p)
        frz   == convert(0, "degC", t.units)
        tcond == rolling_reduce([k \in 1 .. Len(t.data) |-> t.data[k] > frz])
        pcond == [k \in 1 .. Len(p.data) |-> p.data[k] > tt]
        group == resample(p.time, times(tcond, pcond), freq)
    IN  Returned("rain_on_frozen_ground_days", 0, freq,
                 [g \in 1 .. Len(group) |-> restore_empty_groups(group[g], nansum(group[g]))],
                 <<>>,
                 <<"convert_units", "rolling", "compare", "resample", "reduce">>)

(***************************************************************************)
(* liquid_precip_ratio and winter_rain_ratio.  A ratio is kept as the two  *)
(* totals it divides, [num, den]; 0 / 0 is NaN.                            *)
(***************************************************************************)
\* prsn=None
None == [cal |-> "", time |-> <<>>, units |-> "", data |-> <<>>]

\* da.resample(time=freq).sum(dim='time'); a period without data has the
\* totals 0 and 0 and so the ratio NaN
resample_sum(da, data, freq) ==
    LET group == resample(da.time, data, freq)
    IN  [g \in 1 .. Len(group) |-> SeqSum(group[g])]

\* liquid_precip_ratio taking the precipitation of a day at 0 degC for solid
liquid_precip_ratio_le(p, prsn, t, freq) ==
    LET frz   == IF "degC" # t.units THEN convert(0, "degC", t.units) ELSE 0
        snow  == IF prsn = None
                 THEN [k \in 1 .. Len(p.data) |-> IF t.data[k] <= frz THEN p.data[k] ELSE 0]
                 ELSE prsn.data
        tot   == resample_sum(p, p.data, freq)
        solid == resample_sum(p, snow, freq)
        rain  == [g \in 1 .. Len(tot) |-> tot[g] - solid[g]]
    IN  Returned("liquid_precip_ratio", 0, freq,
                 [g \in 1 .. Len(tot) |-> [num |-> rain[g], den |-> tot[g]]], <<>>,
                 <<"convert_units", "where", "resample", "sum", "divide">>)

liquid_precip_ratio(p, prsn, t, freq) ==
    LET frz   == IF "degC" # t.units THEN convert(0, "degC", t.units) ELSE 0
        \* prsn = pr.where(tas < frz, 0)
        snow  == IF prsn = None
                 THEN [k \in 1 .. Len(p.data) |-> IF t.data[k] < frz THEN p.data[k] ELSE 0]
                 ELSE prsn.data
        tot   == resample_sum(p, p.data, freq)
        solid == resample_sum(p, snow, freq)
        rain  == [g \in 1 .. Len(tot) |-> tot[g] - solid[g]]
    IN  Returned("liquid_precip_ratio", 0, freq,
                 [g \in 1 .. Len(tot) |-> [num |-> rain[g], den |-> tot[g]]], <<>>,
                 <<"convert_units", "where", "resample", "sum", "divide">>)

\* ratio[winter]: the entries of ratio at the positions where winter holds, in order
RECURSIVE mask(_, _)
mask(ratio, winter) ==
    IF ratio = <<>> THEN <<>>
    ELSE (IF Head(winter) THEN <<Head(ratio)>> ELSE <<>>) \o mask(Tail(ratio), Tail(winter))

winter_rain_ratio(p, prsn, t) ==
    LET ratio  == liquid_precip_ratio(p, prsn, t, "QS-DEC")
        month  == label_month(p.time, "QS-DEC")
        winter == [i \in 1 .. Len(month) |-> month[i] = 12]
    IN  Returned("winter_rain_ratio", 0, "QS-DEC", mask(ratio.value, winter), <<>>,
                 Append(ratio.steps, "select"))

(***************************************************************************)
(* Calendar alignment of a day-of-year curve.                              *)
(* A curve is [has_doy, units, data]: data[d] is the value for             *)
(* day-of-year d, has_doy tells whether its coordinate is named dayofyear. *)
(***************************************************************************)
\* utils.adjust_doy_calendar(source, target): days of the target calendar the
\* curve lacks lie between its last day and day 1 of the next year and are
\* interpolated linearly between these two entries (curves have YearLen or
\* YearLen + 1 entries holding whole degrees, which makes the division exact)
adjust_doy_calendar(data, target) ==
    LET n == Len(data)
        m == DaysInYear(target.cal)
    IN  IF m <= n THEN data
        ELSE [d \in 1 .. m |->
                 IF d <= n THEN data[d]
                 ELSE data[n] + ((data[1] - data[n]) * (d - n)) \div ((m + 1) - n)]

\* sel handing out the curve by position, the k-th entry for the k-th timestamp
sel_by_position(data, doy) == [k \in 1 .. Len(doy) |-> data[((k - 1) % Len(data)) + 1]]

\* sel reading the entry after the one asked for
sel_next_day(data, doy) == [k \in 1 .. Len(doy) |-> data[(doy[k] % Len(data)) + 1]]

\* tn10.sel(dayofyear=doy): the entry labelled doy[k] for each k, in the order of doy
sel(data, doy) == [k \in 1 .. Len(doy) |-> data[doy[k]]]

\* every requested label exists
sel_ok(data, doy) == \A k \in 1 .. Len(doy) : doy[k] \in DOMAIN data

(***************************************************************************)
(* The percentile indicators are the same statements in slightly different *)
(* orders.  A frame holds the local variables of one call; Exec runs one   *)
(* statement, Run runs a body until it ends or raises.                     *)
(***************************************************************************)
Frame(da, q, window, freq) ==
    [da |-> da, q |-> q, window |-> window, freq |-> freq, doy |-> <<>>,
     thresh |-> <<>>, cond |-> <<>>, value |-> <<>>, error |-> "", steps |-> <<>>]

Exec(stmt, e) ==
    CASE stmt = "check_doy" ->
            \* if 'dayofyear' not in tn10.coords.keys(): raise AttributeError
            IF e.q.has_doy THEN e ELSE [e EXCEPT !.error = "AttributeError"]
      [] stmt = "doy" ->
            [e EXCEPT !.doy = dayofyear(e.da.time)]
      [] stmt = "convert_units" ->
            \* tn10 = utils.convert_units_to(tn10, tasmin)
            [e EXCEPT !.q = [has_doy |-> e.q.has_doy, units |-> e.da.units,
                             data |-> [d \in 1 .. Len(e.q.data) |->
                                         convert(e.q.data[d], e.q.units, e.da.units)]]]
      [] stmt = "adjust_doy" ->
            \* tn10 = utils.adjust_doy_calendar(tn10, tasmin)
            [e EXCEPT !.q = [has_doy |-> e.q.has_doy, units |-> e.q.units,
                             data |-> adjust_doy_calendar(e.q.data, e.da)]]
      [] stmt = "sel" ->
            \* thresh = xr.full_like(tasmin, np.nan); thresh.data = tn10.sel(dayofyear=doy)
            IF sel_ok(e.q.data, e.doy)
            THEN [e EXCEPT !.thresh = sel(e.q.data, e.doy)]
            ELSE [e EXCEPT !.error = "KeyError"]
      [] stmt = "below" ->
            [e EXCEPT !.cond = [k \in 1 .. Len(e.da.data) |-> e.da.data[k] < e.thresh[k]]]
      [] stmt = "above" ->
            [e EXCEPT !.cond = [k \in 1 .. Len(e.da.data) |-> e.da.data[k] > e.thresh[k]]]
      [] stmt = "windowed_run_count" ->
            \* cond.resample(time=freq).apply(rl.windowed_run_count, window=window, dim='time')
            IF InvalidWindow(e.window)
            THEN [e EXCEPT !.error = "InvalidWindowError"]
            ELSE [e EXCEPT !.value = apply_windowed_run_count(
                                     resample(e.da.time, e.cond, e.freq), e.window)]
      [] stmt = "sum" ->
            \* cond.resample(time=freq).sum(dim='time')
            [e EXCEPT !.value =
                LET g == resample(e.da.time, e.cond, e.freq)
                IN  [i \in 1 .. Len(g) |->
                        restore_empty_groups(g[i], Len(SelectSeq(g[i], LAMBDA b : b)))]]

RECURSIVE Run(_, _)
Run(body, e) ==
    IF body = <<>> \/ e.error # "" THEN e
    ELSE Run(Tail(body), Exec(Head(body), [e EXCEPT !.steps = Append(@, Head(body))]))

\* what the caller sees of a finished frame
Outcome(fn, e) ==
    IF e.error # "" THEN Raised(fn, e.window, e.freq, e.error, e.steps)
    ELSE Returned(fn, e.window, e.freq, e.value, e.thresh, e.steps)

\* cold_spell_duration_index comparing the wrong way round
cold_spell_duration_index_above(tn, tn10, window, freq) ==
    Outcome("cold_spell_duration_index",
            Run(<<"check_doy", "doy", "convert_units", "adjust_doy", "sel", "above",
                  "windowed_run_count">>, Frame(tn, tn10, window, freq)))

\* cold_spell_duration_index checking the coordinate after the conversion
cold_spell_duration_index_late_check(tn, tn10, window, freq) ==
    Outcome("cold_spell_duration_index",
            Run(<<"doy", "convert_units", "check_doy", "adjust_doy", "sel", "below",
                  "windowed_run_count">>, Frame(tn, tn10, window, freq)))

\* cold_spell_duration_index without the calendar adjustment
cold_spell_duration_index_no_adjust(tn, tn10, window, freq) ==
    Outcome("cold_spell_duration_index",
            Run(<<"check_doy", "doy", "convert_units", "sel", "below",
                  "windowed_run_count">>, Frame(tn, tn10, window, freq)))

cold_spell_duration_index(tn, tn10, window, freq) ==
    Outcome("cold_spell_duration_index",
            Run(<<"check_doy", "doy", "convert_units", "adjust_doy", "sel", "below",
                  "windowed_run_count">>, Frame(tn, tn10, window, freq)))

warm_spell_duration_index(tx, tx90, window, freq) ==
    Outcome("warm_spell_duration_index",
            Run(<<"check_doy", "doy", "adjust_doy", "sel", "above",
                  "windowed_run_count">>, Frame(tx, tx90, window, freq)))

tg90p(t, t90, freq) ==
    Outcome("tg90p",
            Run(<<"check_doy", "convert_units", "adjust_doy", "doy", "sel", "above", "sum">>,
                Frame(t, t90, 0, freq)))

tg10p(t, t10, freq) ==
    Outcome("tg10p",
            Run(<<"check_doy", "convert_units", "adjust_doy", "doy", "sel", "below", "sum">>,
                Frame(t, t10, 0, freq)))

tn90p(tn, t90, freq) ==
    Outcome("tn90p",
            Run(<<"check_doy", "convert_units", "adjust_doy", "doy", "sel", "above", "sum">>,
                Frame(tn, t90, 0, freq)))

tn10p(tn, t10, freq) ==
    Outcome("tn10p",
            Run(<<"check_doy", "convert_units", "adjust_doy", "doy", "sel", "below", "sum">>,
                Frame(tn, t10, 0, freq)))

tx90p(tx, t90, freq) ==
    Outcome("tx90p",
            Run(<<"check_doy", "convert_units", "adjust_doy", "doy", "sel", "above", "sum">>,
                Frame(tx, t90, 0, freq)))

tx10p(tx, t10, freq) ==
    Outcome("tx10p",
            Run(<<"check_doy", "convert_units", "adjust_doy", "doy", "sel", "below", "sum">>,
                Frame(tx, t10, 0, freq)))

(***************************************************************************)
(* Inputs                                                                  *)
(***************************************************************************)
DataArray(cal, time, units, data) ==
    [cal |-> cal, time |-> time, units |-> units, data |-> data]

\* a series given in degC, expressed in units u
InUnits(data, u) == [k \in 1 .. Len(data) |-> convert(data[k], "degC", u)]

Shift(data, by) == [k \in 1 .. Len(data) |-> data[k] + by]

TempUnits == {"degC", "K"}

\* daily values around the thresholds the indicators compare with
SummerTasmin == {2200, 2300}
SummerTasmax == {3000, 3100}
WinterTasmin == {-100, 0}
RainyPr == {0, 100}

NoCurve == [has_doy |-> FALSE, units |-> "degC", data |-> <<>>]

\* direct use of the run-length engine on a boolean sequence
InitEngine ==
    /\ arr \in SeqsUpTo(Booleans, MaxLen)
    /\ LET time == TimeAxis("noleap", 1, 1)
       IN  /\ tasmin = DataArray("noleap", time, "degC", <<0>>)
           /\ tas = DataArray("noleap", time, "degC", <<250>>)
           /\ tasmax = DataArray("noleap", time, "degC", <<500>>)
           /\ pr = DataArray("noleap", time, "mm/day", <<0>>)
    /\ per = NoCurve

\* a climatology with the same value on each of the YearLen days of the year
FlatCurve(val) == [has_doy |-> TRUE, units |-> "degC", data |-> [d \in 1 .. YearLen |-> val]]

\* a dataset of n consecutive days (a hot spell, a cold spell or a wet spell)
\* with the percentile curve of its season
InitDataset ==
    /\ arr = <<>>
    /\ \E n \in 1 .. MaxDays, start \in 1 .. YearLen, u \in TempUnits :
         LET time == TimeAxis("noleap", start, n)
         IN  \/ \E tn \in [1 .. n -> SummerTasmin], tx \in [1 .. n -> SummerTasmax] :
                  /\ tasmin = DataArray("noleap", time, u, InUnits(tn, u))
                  /\ tasmax = DataArray("noleap", time, u, InUnits(tx, u))
                  /\ tas = DataArray("noleap", time, u, InUnits(Shift(tn, 400), u))
                  /\ pr = DataArray("noleap", time, "mm/day", [k \in 1 .. n |-> 0])
                  /\ per = FlatCurve(3000)
             \/ \E tn \in [1 .. n -> WinterTasmin] :
                  /\ tasmin = DataArray("noleap", time, u, InUnits(tn, u))
                  /\ tasmax = DataArray("noleap", time, u, InUnits(Shift(tn, 500), u))
                  /\ tas = DataArray("noleap", time, u, InUnits(Shift(tn, 250), u))
                  /\ pr = DataArray("noleap", time, "mm/day", [k \in 1 .. n |-> 0])
                  /\ per = FlatCurve(0)
             \/ \E p \in [1 .. n -> RainyPr] :
                  /\ tasmin = DataArray("noleap", time, u, InUnits([k \in 1 .. n |-> 0], u))
                  /\ tasmax = DataArray("noleap", time, u, InUnits([k \in 1 .. n |-> 500], u))
                  /\ tas = DataArray("noleap", time, u, InUnits([k \in 1 .. n |-> 250], u))
                  /\ pr = DataArray("noleap", time, "mm/day", p)
                  /\ per = FlatCurve(0)

\* the scan before its first step: the indices visited so far, in the order
\* of the visits, the scan state, the step at which each run was emitted
\* (Len(arr) + 1 for the end of the group) and whether the scan has ended
NoScan == [visited |-> <<>>, st |-> ScanStart, at |-> <<>>, done |-> FALSE]

Init ==
    /\ InitEngine \/ InitDataset
    /\ out = NoCall
    /\ scan = NoScan

(***************************************************************************)
(* Calls                                                                   *)
(***************************************************************************)
\* A behaviour is one call on the inputs drawn initially: the indicators are
\* functions of their arguments, no call depends on an earlier one.
Inputs == <<arr, tas, tasmin, tasmax, pr, per>>

NotCalled == out = NoCall

LongestRun ==
    /\ NotCalled
    /\ out' = Returned("longest_run", 0, "", <<longest_run(arr)>>, <<>>, <<"reduce">>)
    /\ UNCHANGED <<Inputs, scan>>

WindowedRunCount ==
    /\ NotCalled
    /\ \E window \in Windows :
         out' = IF InvalidWindow(window)
                THEN Raised("windowed_run_count", window, "", "InvalidWindowError", <<>>)
                ELSE Returned("windowed_run_count", window, "",
                              <<windowed_run_count(arr, window)>>, <<>>, <<"reduce">>)
    /\ UNCHANGED <<Inputs, scan>>

WindowedRunEvents ==
    /\ NotCalled
    /\ \E window \in Windows :
         out' = IF InvalidWindow(window)
                THEN Raised("windowed_run_events", window, "", "InvalidWindowError", <<>>)
                ELSE Returned("windowed_run_events", window, "",
                              <<windowed_run_events(arr, window)>>, <<>>, <<"reduce">>)
    /\ UNCHANGED <<Inputs, scan>>

MaximumConsecutiveDryDays ==
    /\ NotCalled
    /\ \E freq \in Freqs : out' = maximum_consecutive_dry_days(pr, DryThresh, freq)
    /\ UNCHANGED <<Inputs, scan>>

ConsecutiveFrostDays ==
    /\ NotCalled
    /\ \E freq \in Freqs : out' = consecutive_frost_days(tasmin, freq)
    /\ UNCHANGED <<Inputs, scan>>

HeatWaveFrequency ==
    /\ NotCalled
    /\ \E window \in Windows, freq \in Freqs :
         out' = heat_wave_frequency(tasmin, tasmax, HeatThreshTasmin, HeatThreshTasmax,
                                    window, freq)
    /\ UNCHANGED <<Inputs, scan>>

HeatWaveMaxLength ==
    /\ NotCalled
    /\ \E window \in Windows, freq \in Freqs :
         out' = heat_wave_max_length(tasmin, tasmax, HeatThreshTasmin, HeatThreshTasmax,
                                     window, freq)
    /\ UNCHANGED <<Inputs, scan>>

(***************************************************************************)
(* Percentile indicators: a target series on either calendar and a curve   *)
(* built on either calendar.                                               *)
(***************************************************************************)
TargetTasmin == {0, 100}
CurveValues == {0, 200}
CurveLens == {YearLen, YearLen + 1}

InitPercentile ==
    /\ arr = <<>>
    /\ out = NoCall
    /\ scan = NoScan
    /\ \E cal \in Calendars, n \in 1 .. MaxDays, u \in TempUnits :
         \E start \in {1, DaysInYear(cal)}, tn \in [1 .. n -> TargetTasmin] :
            LET time == TimeAxis(cal, start, n)
            IN  /\ tasmin = DataArray(cal, time, u, InUnits(tn, u))
                /\ tas = DataArray(cal, time, u, InUnits(Shift(tn, 50), u))
                /\ tasmax = DataArray(cal, time, u, InUnits(Shift(tn, 100), u))
                /\ pr = DataArray(cal, time, "mm/day", [k \in 1 .. n |-> 0])
    /\ \E len \in CurveLens, u \in TempUnits, has_doy \in Booleans :
         \E c \in [1 .. len -> CurveValues] :
            /\ has_doy \/ len = YearLen
            /\ per = [has_doy |-> has_doy, units |-> u, data |-> InUnits(c, u)]

ColdSpellDurationIndex ==
    /\ NotCalled
    /\ \E window \in Windows, freq \in Freqs :
         out' = cold_spell_duration_index(tasmin, per, window, freq)
    /\ UNCHANGED <<Inputs, scan>>

WarmSpellDurationIndex ==
    /\ NotCalled
    /\ \E window \in Windows, freq \in Freqs :
         out' = warm_spell_duration_index(tasmax, per, window, freq)
    /\ UNCHANGED <<Inputs, scan>>

Tg90p ==
    /\ NotCalled
    /\ \E freq \in Freqs : out' = tg90p(tas, per, freq)
    /\ UNCHANGED <<Inputs, scan>>

Tg10p ==
    /\ NotCalled
    /\ \E freq \in Freqs : out' = tg10p(tas, per, freq)
    /\ UNCHANGED <<Inputs, scan>>

Tn90p ==
    /\ NotCalled
    /\ \E freq \in Freqs : out' = tn90p(tasmin, per, freq)
    /\ UNCHANGED <<Inputs, scan>>

Tn10p ==
    /\ NotCalled
    /\ \E freq \in Freqs : out' = tn10p(tasmin, per, freq)
    /\ UNCHANGED <<Inputs, scan>>

Tx90p ==
    /\ NotCalled
    /\ \E freq \in Freqs : out' = tx90p(tasmax, per, freq)
    /\ UNCHANGED <<Inputs, scan>>

Tx10p ==
    /\ NotCalled
    /\ \E freq \in Freqs : out' = tx10p(tasmax, per, freq)
    /\ UNCHANGED <<Inputs, scan>>

NextPercentile ==
    \/ ColdSpellDurationIndex
    \/ WarmSpellDurationIndex
    \/ Tg90p
    \/ Tg10p
    \/ Tn90p
    \/ Tn10p
    \/ Tx90p
    \/ Tx10p

SpecPercentile == InitPercentile /\ [][NextPercentile]_vars

(***************************************************************************)
(* The scan of the engine, one entry per step.                             *)
(***************************************************************************)
InitScan ==
    /\ InitEngine
    /\ out = NoCall
    /\ scan = NoScan

\* the scan reads the next entry of the group
ScanStep ==
    /\ ~scan.done
    /\ Len(scan.visited) < Len(arr)
    /\ LET i  == Len(scan.visited) + 1
           st == ScanVisit(scan.st, arr[i])
       IN  scan' = [visited |-> Append(scan.visited, i),
                    st      |-> st,
                    at      |-> IF Len(st.runs) > Len(scan.st.runs)
                                THEN Append(scan.at, i) ELSE scan.at,
                    done    |-> FALSE]
    /\ UNCHANGED <<Inputs, out>>

\* the scan is past the last entry: the group ends
ScanEnd ==
    /\ ~scan.done
    /\ Len(scan.visited) = Len(arr)
    /\ LET runs == ScanFlush(scan.st)
       IN  scan' = [visited |-> scan.visited,
                    st      |-> [cur |-> 0, runs |-> runs],
                    at      |-> IF Len(runs) > Len(scan.st.runs)
                                THEN Append(scan.at, Len(arr) + 1) ELSE scan.at,
                    done    |-> TRUE]
    /\ UNCHANGED <<Inputs, out>>

NextScan ==
    \/ ScanStep
    \/ ScanEnd

\* the scan is a loop over the group that runs to its end
SpecScan == InitScan /\ [][NextScan]_vars /\ WF_vars(NextScan)

(***************************************************************************)
(* Rain on frozen ground: a series long enough for a week of frost and the *)
(* days after it; every day is mild or as cold as the frost of that        *)
(* series, with rain on the early days and rain or none on the last two.   *)
(***************************************************************************)
FrostTas == {-100, 0}
MildTas == {100}
FrozenGroundPr == {100, 200}

InitFrozenGround ==
    /\ arr = <<>>
    /\ out = NoCall
    /\ scan = NoScan
    /\ per = NoCurve
    /\ \E n \in 1 .. MaxFrozenDays, u \in TempUnits, frost \in FrostTas :
         \E t \in [1 .. n -> {frost} \cup MildTas], last \in [0 .. 1 -> FrozenGroundPr] :
            LET time == TimeAxis("noleap", 1, n)
            IN  /\ tas = DataArray("noleap", time, u, InUnits(t, u))
                /\ tasmin = DataArray("noleap", time, u, InUnits(Shift(t, -100), u))
                /\ tasmax = DataArray("noleap", time, u, InUnits(Shift(t, 100), u))
                /\ pr = DataArray("noleap", time, "mm/day",
                                  [k \in 1 .. n |-> IF k + 1 < n THEN 200 ELSE last[n - k]])

RainOnFrozenGroundDays ==
    /\ NotCalled
    /\ \E freq \in Freqs : out' = rain_on_frozen_ground_days(pr, tas, RainThresh, freq)
    /\ UNCHANGED <<Inputs, scan>>

NextFrozenGround ==
    \/ RainOnFrozenGroundDays

SpecFrozenGround == InitFrozenGround /\ [][NextFrozenGround]_vars

(***************************************************************************)
(* Series with missing days: hot dry days and cold wet days, and a gap     *)
(* that may leave whole periods without a timestamp.                       *)
(***************************************************************************)
Weather == {"hot and dry", "cold and wet"}

InitGaps ==
    /\ arr = <<>>
    /\ out = NoCall
    /\ scan = NoScan
    /\ per = NoCurve
    /\ \E n \in 2 .. MaxDays, start \in 1 .. YearLen, u \in TempUnits :
         \E at \in 1 .. n - 1, skip \in 0 .. 2 * YearLen, w \in [1 .. n -> Weather] :
            LET time == GapAxis("noleap", start, n, at, skip)
                tn   == [k \in 1 .. n |-> IF w[k] = "hot and dry" THEN 2300 ELSE -100]
            IN  /\ tasmin = DataArray("noleap", time, u, InUnits(tn, u))
                /\ tasmax = DataArray("noleap", time, u, InUnits(Shift(tn, 800), u))
                /\ tas = DataArray("noleap", time, u, InUnits(Shift(tn, 400), u))
                /\ pr = DataArray("noleap", time, "mm/day",
                                  [k \in 1 .. n |-> IF w[k] = "hot and dry" THEN 0 ELSE 100])

\* the same days without a gap, with the curve of a winter
InitSpells ==
    /\ arr = <<>>
    /\ out = NoCall
    /\ scan = NoScan
    /\ per = FlatCurve(0)
    /\ \E n \in 1 .. MaxDays, start \in 1 .. YearLen, u \in TempUnits :
         \E w \in [1 .. n -> Weather] :
            LET time == TimeAxis("noleap", start, n)
                tn   == [k \in 1 .. n |-> IF w[k] = "hot and dry" THEN 2300 ELSE -100]
            IN  /\ tasmin = DataArray("noleap", time, u, InUnits(tn, u))
                /\ tasmax = DataArray("noleap", time, u, InUnits(Shift(tn, 800), u))
                /\ tas = DataArray("noleap", time, u, InUnits(Shift(tn, 400), u))
                /\ pr = DataArray("noleap", time, "mm/day",
                                  [k \in 1 .. n |-> IF w[k] = "hot and dry" THEN 0 ELSE 100])

NextSpells ==
    \/ MaximumConsecutiveDryDays
    \/ HeatWaveFrequency
    \/ ColdSpellDurationIndex

SpecSpells == InitSpells /\ [][NextSpells]_vars

NextGaps ==
    \/ MaximumConsecutiveDryDays
    \/ ConsecutiveFrostDays
    \/ HeatWaveFrequency
    \/ HeatWaveMaxLength

SpecGaps == InitGaps /\ [][NextGaps]_vars

(***************************************************************************)
(* Seasonal ratios: days at or below freezing, with or without             *)
(* precipitation, over several seasons.                                    *)
(***************************************************************************)
RatioTas == {-100, 0}
RatioPr == {0, 200}

InitRatio ==
    /\ arr = <<>>
    /\ out = NoCall
    /\ scan = NoScan
    /\ per = NoCurve
    /\ \E n \in 1 .. MaxSeasonDays, start \in 1 .. 4 * SeasonLen, u \in TempUnits :
         \E t \in [1 .. n -> RatioTas], p \in [1 .. n -> RatioPr] :
            LET time == SeasonAxis(start, n)
            IN  /\ tas = DataArray("noleap", time, u, InUnits(t, u))
                /\ tasmin = DataArray("noleap", time, u, InUnits(Shift(t, -100), u))
                /\ tasmax = DataArray("noleap", time, u, InUnits(Shift(t, 100), u))
                /\ pr = DataArray("noleap", time, "mm/day", p)

LiquidPrecipRatio ==
    /\ NotCalled
    /\ out' = liquid_precip_ratio(pr, None, tas, "QS-DEC")
    /\ UNCHANGED <<Inputs, scan>>

WinterRainRatio ==
    /\ NotCalled
    /\ out' = winter_rain_ratio(pr, None, tas)
    /\ UNCHANGED <<Inputs, scan>>

NextRatio ==
    \/ LiquidPrecipRatio
    \/ WinterRainRatio

SpecRatio == InitRatio /\ [][NextRatio]_vars

Next ==
    \/ LongestRun
    \/ WindowedRunCount
    \/ WindowedRunEvents
    \/ MaximumConsecutiveDryDays
    \/ ConsecutiveFrostDays
    \/ HeatWaveFrequency
    \/ HeatWaveMaxLength
    \/ ColdSpellDurationIndex
    \/ WarmSpellDurationIndex

Spec == Init /\ [][Next]_vars

(***************************************************************************)
(* Properties.  Runs are described by their positions, independently of    *)
(* the scan that the engine performs.                                      *)
(***************************************************************************)
\* positions a..b of s hold a run of true that cannot be extended
IsMaximalRun(s, a, b) ==
    /\ a <= b
    /\ \A k \in a .. b : s[k]
    /\ a = 1 \/ ~s[a - 1]
    /\ b = Len(s) \/ ~s[b + 1]

MaximalRuns(s) ==
    {r \in (1 .. Len(s)) \X (1 .. Len(s)) : IsMaximalRun(s, r[1], r[2])}

RunLen(r) == (r[2] - r[1]) + 1

\* n is the length of the longest maximal run of s, 0 when there is none
IsLongest(s, n) ==
    /\ \A r \in MaximalRuns(s) : RunLen(r) <= n
    /\ n = 0 \/ \E r \in MaximalRuns(s) : RunLen(r) = n

\* number of maximal runs of s of at least window entries
QualifyingRuns(s, window) ==
    Cardinality({r \in MaximalRuns(s) : RunLen(r) >= window})

\* number of entries of s lying in a maximal run of at least window entries
QualifyingDays(s, window) ==
    Cardinality({k \in 1 .. Len(s) :
                    \E r \in MaximalRuns(s) :
                       RunLen(r) >= window /\ r[1] <= k /\ k <= r[2]})

Periods(time, freq) == PeriodsFrom(time, freq, 1)

\* the entries of a daily boolean series that fall in period p = <<first, last>>
Slice(cond, p) == [k \in 1 .. (p[2] - p[1]) + 1 |-> cond[p[1] + (k - 1)]]

\* the series in degC, whatever its units
Celsius(da) == [k \in 1 .. Len(da.data) |-> convert(da.data[k], da.units, "degC")]

DryDay == [k \in 1 .. Len(pr.data) |-> pr.data[k] < 100]
FrostDay == [k \in 1 .. Len(tasmin.data) |-> Celsius(tasmin)[k] < 0]
HeatDay ==
    [k \in 1 .. Len(tasmin.data) |-> Celsius(tasmin)[k] > 2200 /\ Celsius(tasmax)[k] > 3000]

\* the parts of a daily boolean series lying in each period, in order
PeriodSlices(time, freq, cond) ==
    LET ps == Periods(time, freq) IN [g \in 1 .. Len(ps) |-> Slice(cond, ps[g])]

\* for each period, the number of maximal runs of at least window days in it
RunsPerPeriod(time, freq, cond, window) ==
    LET sl == PeriodSlices(time, freq, cond)
    IN  [g \in 1 .. Len(sl) |-> QualifyingRuns(sl[g], window)]

\* for each period, the number of its days lying in such a run
DaysPerPeriod(time, freq, cond, window) ==
    LET sl == PeriodSlices(time, freq, cond)
    IN  [g \in 1 .. Len(sl) |-> QualifyingDays(sl[g], window)]

\* days colder (warmer) than the threshold the call aligned to them
ColdDay == [k \in 1 .. Len(tasmin.data) |-> tasmin.data[k] < out.thresh[k]]
WarmDay == [k \in 1 .. Len(tasmax.data) |-> tasmax.data[k] > out.thresh[k]]

\* C1: longest_run(s) is the length of the longest maximal run of true of s,
\* runs touching either end included; it is at most Len(s) and 0 exactly when
\* s has no true; maximum_consecutive_dry_days and consecutive_frost_days
\* return it for each period.
C1_LongestRun ==
    /\ out.fn = "longest_run" =>
         /\ out.error = ""
         /\ IsLongest(arr, out.value[1])
         /\ out.value[1] <= Len(arr)
         /\ (out.value[1] = 0) <=> (\A k \in 1 .. Len(arr) : ~arr[k])
    /\ out.fn = "maximum_consecutive_dry_days" =>
         /\ out.error = ""
         /\ LET sl == PeriodSlices(pr.time, out.freq, DryDay)
            IN  /\ Len(out.value) = Len(sl)
                /\ \A g \in 1 .. Len(sl) : IsLongest(sl[g], out.value[g])
    /\ out.fn = "consecutive_frost_days" =>
         /\ out.error = ""
         /\ LET sl == PeriodSlices(tasmin.time, out.freq, FrostDay)
            IN  /\ Len(out.value) = Len(sl)
                /\ \A g \in 1 .. Len(sl) : IsLongest(sl[g], out.value[g])

\* a dry spell that reaches the end of its period and is the longest of it
C1_Witness ==
    /\ out.fn = "maximum_consecutive_dry_days"
    /\ Len(out.value) >= 2
    /\ out.value[1] >= 2
    /\ \E k \in 1 .. Len(pr.data) : ~DryDay[k]
    /\ LET p == Periods(pr.time, out.freq)[1] IN DryDay[p[2]]

\* C2: for window >= 1, windowed_run_count(s, window) is the number of maximal
\* runs of true of s with at least window entries, one per run however long,
\* runs touching either end included; this is what the spell indicators apply
\* to each period.
C2_WindowedRunCount ==
    /\ (out.fn = "windowed_run_count" /\ out.window >= 1) =>
         /\ out.error = ""
         /\ out.value = <<QualifyingRuns(arr, out.window)>>
    /\ (out.fn = "cold_spell_duration_index" /\ out.window >= 1 /\ per.has_doy) =>
         /\ out.error = ""
         /\ out.value = RunsPerPeriod(tasmin.time, out.freq, ColdDay, out.window)

\* a single run of three windows counted once
C2_Witness ==
    /\ out.fn = "windowed_run_count"
    /\ out.window = 2
    /\ Len(arr) = 6
    /\ \A k \in 1 .. Len(arr) : arr[k]
    /\ out.value = <<1>>

\* C3: for window >= 1, windowed_run_events(s, window) is the sum of the
\* lengths of the maximal runs of true of s with at least window entries, and
\* with window 1 the number of true entries of s.
C3_WindowedRunEvents ==
    /\ (out.fn = "windowed_run_events" /\ out.window >= 1) =>
         /\ out.error = ""
         /\ out.value = <<QualifyingDays(arr, out.window)>>
         /\ out.window = 1 =>
              out.value = <<Cardinality({k \in 1 .. Len(arr) : arr[k]})>>
    /\ (out.fn = "heat_wave_frequency" /\ out.window >= 1) =>
         /\ out.error = ""
         /\ out.value = DaysPerPeriod(tasmin.time, out.freq, HeatDay, out.window)

\* a long run counted in full beside a short run that adds nothing
C3_Witness ==
    /\ out.fn = "windowed_run_events"
    /\ out.window = 3
    /\ arr = <<TRUE, TRUE, FALSE, TRUE, TRUE, TRUE>>
    /\ out.value = <<3>>

\* C4 as claimed: heat_wave_frequency returns, for each period, the number of
\* heat waves: each maximal run of at least window days with tasmin > thresh_tasmin
\* and tasmax > thresh_tasmax counts once, however long it is.
C4_HeatWaveFrequencyCountsWaves ==
    (out.fn = "heat_wave_frequency" /\ out.window >= 1) =>
        /\ out.error = ""
        /\ out.value = RunsPerPeriod(tasmin.time, out.freq, HeatDay, out.window)

PercentileFns ==
    {"cold_spell_duration_index", "warm_spell_duration_index",
     "tg90p", "tg10p", "tn90p", "tn10p", "tx90p", "tx10p"}

\* the series handed to indicator fn
Target(fn) ==
    IF fn \in {"tg90p", "tg10p"} THEN tas
    ELSE IF fn \in {"tx90p", "tx10p", "warm_spell_duration_index"} THEN tasmax
    ELSE tasmin

TargetDoy == [k \in 1 .. Len(tasmin.time) |-> tasmin.time[k].doy]

\* the curve as given, and the curve expressed in the units of the target
CurveAsGiven == per.data
CurveInUnitsOf(da) == [d \in 1 .. Len(per.data) |-> convert(per.data[d], per.units, da.units)]
Curves(fn) == {CurveAsGiven, CurveInUnitsOf(Target(fn))}

\* the day after the last day of the curve, half way to day 1 of the next year
WrapValue(c) == (c[Len(c)] + c[1]) \div 2

AlignedAt(c, d) == IF d <= Len(c) THEN c[d] ELSE WrapValue(c)

Between(x, a, b) == (a <= x /\ x <= b) \/ (b <= x /\ x <= a)
StrictlyBetween(x, a, b) == (a < x /\ x < b) \/ (b < x /\ x < a)

\* the call got as far as reducing the periods
Aligned == out.fn \in PercentileFns /\ out.error = ""

\* C5 as claimed: cold_spell_duration_index (warm_spell_duration_index) returns,
\* for each period, the number of days lying in a run of at least window days
\* with tasmin below (tasmax above) the threshold aligned to the day.
C5_SpellIndexCountsDays ==
    /\ (out.fn = "cold_spell_duration_index" /\ out.error = "") =>
         out.value = DaysPerPeriod(tasmin.time, out.freq, ColdDay, out.window)
    /\ (out.fn = "warm_spell_duration_index" /\ out.error = "") =>
         out.value = DaysPerPeriod(tasmax.time, out.freq, WarmDay, out.window)

\* C7: a percentile indicator given a curve without dayofyear coordinate raises
\* the error about the missing coordinate for every target series, before any
\* unit conversion, calendar adjustment, selection or comparison, and returns
\* nothing.
C7_MissingDoyRaisesFirst ==
    (out.fn \in PercentileFns /\ ~per.has_doy) =>
        /\ out.error = "AttributeError"
        /\ out.value = <<>>
        /\ out.thresh = <<>>
        /\ \A k \in 1 .. Len(out.steps) :
              out.steps[k] \notin {"convert_units", "adjust_doy", "sel", "below", "above",
                                   "windowed_run_count", "sum"}

\* a curve in other units than a series of several days, refused
C7_Witness ==
    /\ out.fn = "tx10p"
    /\ ~per.has_doy
    /\ per.units # tasmax.units
    /\ Len(tasmax.data) >= 2
    /\ out.error = "AttributeError"

\* C8: the aligned threshold has one entry per timestamp of the target, in the
\* order of the timestamps: entry i is the value of the (adjusted) curve for the
\* day-of-year of timestamp i, also when a day-of-year occurs in several years.
C8_OneThresholdPerTimestamp ==
    Aligned =>
        /\ Len(out.thresh) = Len(Target(out.fn).time)
        /\ \E c \in Curves(out.fn) :
              \A i \in 1 .. Len(TargetDoy) : out.thresh[i] = AlignedAt(c, TargetDoy[i])

\* a day-of-year met in two years, between them a day with another threshold
C8_Witness ==
    /\ Aligned
    /\ out.fn = "tn90p"
    /\ \E i, j \in 1 .. Len(TargetDoy) :
          /\ i + 1 < j
          /\ TargetDoy[i] = TargetDoy[j]
          /\ out.thresh[i] = out.thresh[j]
          /\ out.thresh[i + 1] # out.thresh[i]

\* the curve stops a day short of the target's year and the target has that day
LeapDayCase ==
    /\ out.fn \in PercentileFns
    /\ per.has_doy
    /\ Len(per.data) = YearLen
    /\ \E i \in 1 .. Len(TargetDoy) : TargetDoy[i] = YearLen + 1

\* C9 as claimed: aligning a curve of YearLen entries to a target holding
\* day-of-year YearLen + 1 does not fail, and the value for that day lies
\* strictly between the curve's entries for day YearLen and day 1.
C9_LeapDayStrictlyBetween ==
    LeapDayCase =>
        /\ out.error \in {"", "InvalidWindowError"}
        /\ out.error = "" =>
             \E c \in Curves(out.fn) :
                \A i \in 1 .. Len(TargetDoy) :
                   TargetDoy[i] = YearLen + 1 =>
                      StrictlyBetween(out.thresh[i], c[YearLen], c[1])

\* C9 as amended: the alignment does not fail, and the value for that day lies
\* between the curve's entries for day YearLen and day 1, strictly when the two
\* entries differ.
C9_LeapDayBetween ==
    LeapDayCase =>
        /\ out.error \in {"", "InvalidWindowError"}
        /\ out.error = "" =>
             \E c \in Curves(out.fn) :
                \A i \in 1 .. Len(TargetDoy) :
                   TargetDoy[i] = YearLen + 1 =>
                      /\ Between(out.thresh[i], c[YearLen], c[1])
                      /\ c[YearLen] # c[1] =>
                            StrictlyBetween(out.thresh[i], c[YearLen], c[1])

\* a leap day between two different entries
C9_Witness ==
    /\ LeapDayCase
    /\ out.error = ""
    /\ per.data[YearLen] # per.data[1]
    /\ \E i \in 1 .. Len(TargetDoy) :
          /\ TargetDoy[i] = YearLen + 1
          /\ \E c \in Curves(out.fn) : StrictlyBetween(out.thresh[i], c[YearLen], c[1])

\* C10: for every day-of-year the curve holds, the alignment returns the
\* curve's entry for that day, also when the calendars of curve and target
\* differ; only the other days get interpolated values.
C10_CurveDaysUnchanged ==
    Aligned =>
        \E c \in Curves(out.fn) :
           \A i \in 1 .. Len(TargetDoy) :
              TargetDoy[i] \in 1 .. Len(per.data) => out.thresh[i] = c[TargetDoy[i]]

\* a target on the long calendar, a curve on the short one that is not flat
C10_Witness ==
    /\ Aligned
    /\ Len(per.data) < DaysInYear(tasmin.cal)
    /\ \E i, j \in 1 .. Len(TargetDoy) :
          /\ TargetDoy[i] <= Len(per.data)
          /\ TargetDoy[j] <= Len(per.data)
          /\ out.thresh[i] # out.thresh[j]
    /\ \E i \in 1 .. Len(TargetDoy) : TargetDoy[i] > Len(per.data)

(***************************************************************************)
(* Properties of the engine across windows and on degenerate groups        *)
(***************************************************************************)
\* C11: for a fixed sequence windowed_run_count and windowed_run_events do not
\* increase with the window: the value returned for window w is at most the
\* value for every window 1 <= w1 <= w and at least the value for every
\* window w2 >= w.
C11_NonIncreasingInWindow ==
    /\ (out.fn = "windowed_run_count" /\ out.window >= 1) =>
         /\ out.error = ""
         /\ \A w1 \in 1 .. out.window : out.value[1] <= windowed_run_count(arr, w1)
         /\ \A w2 \in out.window .. MaxWindow + 1 :
               windowed_run_count(arr, w2) <= out.value[1]
    /\ (out.fn = "windowed_run_events" /\ out.window >= 1) =>
         /\ out.error = ""
         /\ \A w1 \in 1 .. out.window : out.value[1] <= windowed_run_events(arr, w1)
         /\ \A w2 \in out.window .. MaxWindow + 1 :
               windowed_run_events(arr, w2) <= out.value[1]

\* a sequence whose count and whose covered days both drop from window 2 to 3
C11_Witness ==
    /\ out.fn = "windowed_run_events"
    /\ out.window = 3
    /\ arr = <<TRUE, TRUE, TRUE, FALSE, TRUE, TRUE>>
    /\ out.value = <<3>>
    /\ windowed_run_events(arr, 2) = 5
    /\ windowed_run_count(arr, 2) = 2
    /\ windowed_run_count(arr, 3) = 1

\* C12 as claimed: for every window <= 1, 0 and negative windows included,
\* windowed_run_count returns the number of maximal runs of true.
C12_EveryRunCountsUpToOne ==
    (out.fn = "windowed_run_count" /\ out.window <= 1) =>
        /\ out.error = ""
        /\ out.value = <<Cardinality(MaximalRuns(arr))>>

\* C12 as amended: with window 1 windowed_run_count returns the number of
\* maximal runs of true (every non-empty run qualifies), and so does
\* cold_spell_duration_index for the cold days of each period; a window of 0
\* or less returns no count.
C12_EveryRunCountsAtOne ==
    /\ (out.fn = "windowed_run_count" /\ out.window = 1) =>
         /\ out.error = ""
         /\ out.value = <<Cardinality(MaximalRuns(arr))>>
    /\ (out.fn = "windowed_run_count" /\ out.window <= 0) =>
         /\ out.error # ""
         /\ out.value = <<>>
    /\ (out.fn = "cold_spell_duration_index" /\ out.window = 1 /\ per.has_doy) =>
         /\ out.error = ""
         /\ LET sl == PeriodSlices(tasmin.time, out.freq, ColdDay)
            IN  /\ Len(out.value) = Len(sl)
                /\ \A g \in 1 .. Len(sl) : out.value[g] = Cardinality(MaximalRuns(sl[g]))

\* runs of one entry and a longer run, all counted
C12_Witness ==
    /\ out.fn = "windowed_run_count"
    /\ out.window = 1
    /\ arr = <<TRUE, FALSE, TRUE, TRUE, FALSE, TRUE>>
    /\ out.value = <<3>>

\* the functions that request a windowed reduction
WindowedFns ==
    {"windowed_run_count", "windowed_run_events", "heat_wave_frequency",
     "cold_spell_duration_index", "warm_spell_duration_index"}

\* C13: a windowed reduction requested with window <= 0 ends in
\* InvalidWindowError and returns no statistic, whatever the sequence: directly,
\* through heat_wave_frequency, and through the spell indices whenever they get
\* as far as the reduction (their curve has its dayofyear coordinate).
C13_NonPositiveWindowRaises ==
    (out.fn \in WindowedFns /\ out.window <= 0) =>
        /\ out.error # ""
        /\ out.value = <<>>
        /\ out.fn \in {"windowed_run_count", "windowed_run_events", "heat_wave_frequency"} =>
             out.error = "InvalidWindowError"
        /\ out.fn \in {"cold_spell_duration_index", "warm_spell_duration_index"} =>
             /\ per.has_doy => out.error = "InvalidWindowError"
             /\ out.error = "InvalidWindowError" =>
                  out.steps[Len(out.steps)] = "windowed_run_count"

\* a window of 0 on a series with hot days in two periods
C13_Witness ==
    /\ out.fn = "heat_wave_frequency"
    /\ out.window = 0
    /\ out.error = "InvalidWindowError"
    /\ Len(Periods(tasmin.time, out.freq)) = 2
    /\ HeatDay[1]
    /\ HeatDay[Len(HeatDay)]

\* C14: the engine raises nothing on degenerate groups: on the empty group and
\* on a group without true longest_run, windowed_run_count(s, 1) and
\* windowed_run_events(s, 1) return 0, and on a group of n entries that are all
\* true longest_run returns n.
C14_DegenerateGroups ==
    LET all_false == \A k \in 1 .. Len(arr) : ~arr[k]
        all_true  == \A k \in 1 .. Len(arr) : arr[k]
    IN  /\ out.fn = "longest_run" =>
             /\ out.error = ""
             /\ all_false => out.value = <<0>>
             /\ all_true => out.value = <<Len(arr)>>
        /\ (out.fn \in {"windowed_run_count", "windowed_run_events"} /\ out.window = 1) =>
             /\ out.error = ""
             /\ all_false => out.value = <<0>>

\* the empty group reduced with window 1
C14_Witness ==
    /\ arr = <<>>
    /\ out.fn = "windowed_run_events"
    /\ out.window = 1
    /\ out.error = ""
    /\ out.value = <<0>>

(***************************************************************************)
(* Independence of the periods                                             *)
(***************************************************************************)
\* values another series may hold on the days outside a period
OtherPr == {0, 100}
OtherTasmin == {-100, 2300}

\* the series da holding q on the days outside period p and its own values inside
ElsewhereReplaced(da, p, q) ==
    [da EXCEPT !.data = [k \in 1 .. Len(da.data) |->
                            IF p[1] <= k /\ k <= p[2] THEN da.data[k] ELSE q[k]]]

\* what a series that agrees with da on period p may hold on the other days
Elsewhere(da, p, others) == [(1 .. Len(da.data)) \ (p[1] .. p[2]) -> others]

\* the degC values of others in the units of da
OthersFor(da, others) == {convert(v, "degC", da.units) : v \in others}

\* C15: the statistic of a period depends only on the values of that period:
\* whatever a series that agrees with the given one on the period holds on the
\* other days, maximum_consecutive_dry_days (longest_run), heat_wave_frequency
\* (windowed_run_events) and cold_spell_duration_index (windowed_run_count)
\* return the same value for the period; a run crossing a period boundary
\* contributes to each period the part lying inside it, so the longest run of
\* a period is the longest run of its own days and at most its number of days.
C15_PeriodsIndependent ==
    /\ out.fn = "maximum_consecutive_dry_days" =>
         LET ps == Periods(pr.time, out.freq)
         IN  /\ Len(out.value) = Len(ps)
             /\ \A g \in 1 .. Len(ps) :
                   /\ out.value[g] <= (ps[g][2] - ps[g][1]) + 1
                   /\ IsLongest(Slice(DryDay, ps[g]), out.value[g])
                   /\ \A q \in Elsewhere(pr, ps[g], OtherPr) :
                         maximum_consecutive_dry_days(ElsewhereReplaced(pr, ps[g], q),
                                                      DryThresh, out.freq).value[g]
                            = out.value[g]
    /\ (out.fn = "heat_wave_frequency" /\ out.error = "") =>
         LET ps == Periods(tasmin.time, out.freq)
         IN  /\ Len(out.value) = Len(ps)
             /\ \A g \in 1 .. Len(ps) :
                   \A q \in Elsewhere(tasmin, ps[g], OthersFor(tasmin, OtherTasmin)) :
                      heat_wave_frequency(ElsewhereReplaced(tasmin, ps[g], q), tasmax,
                                          HeatThreshTasmin, HeatThreshTasmax,
                                          out.window, out.freq).value[g] = out.value[g]
    /\ (out.fn = "cold_spell_duration_index" /\ out.error = "") =>
         LET ps == Periods(tasmin.time, out.freq)
         IN  /\ Len(out.value) = Len(ps)
             /\ \A g \in 1 .. Len(ps) :
                   \A q \in Elsewhere(tasmin, ps[g], OthersFor(tasmin, OtherTasmin)) :
                      cold_spell_duration_index(ElsewhereReplaced(tasmin, ps[g], q), per,
                                                out.window, out.freq).value[g]
                         = out.value[g]

\* a dry spell of three days crossing the boundary between two periods, one
\* day of it in the first period and two in the second
C15_Witness ==
    /\ out.fn = "maximum_consecutive_dry_days"
    /\ Len(pr.data) = 4
    /\ ~DryDay[1]
    /\ \A k \in 2 .. 4 : DryDay[k]
    /\ Periods(pr.time, out.freq) = <<(<<1, 2>>), (<<3, 4>>)>>
    /\ out.value = <<1, 2>>

(***************************************************************************)
(* Properties of the scan                                                  *)
(***************************************************************************)
\* the maximal runs of arr whose end the scan has seen: the false after the
\* run has been visited, or the group has ended
RunsEnded ==
    {r \in MaximalRuns(arr) : r[2] < Len(scan.visited) \/ scan.done}

\* what holds after every step of the scan
ScanInvariant ==
    LET i == Len(scan.visited)
    IN  /\ i <= Len(arr)
        /\ scan.visited = [k \in 1 .. i |-> k]
        /\ scan.done => i = Len(arr)
        /\ Len(scan.st.runs) = Cardinality(RunsEnded)
        /\ Len(scan.at) = Len(scan.st.runs)
        /\ \A k \in 1 .. Len(scan.at) - 1 : scan.at[k] < scan.at[k + 1]
        /\ \A r \in RunsEnded :
              \E k \in 1 .. Len(scan.at) :
                 /\ scan.at[k] = r[2] + 1
                 /\ scan.st.runs[k] = RunLen(r)
        /\ (scan.done /\ arr # <<>> /\ ~arr[Len(arr)]) =>
              \A k \in 1 .. Len(scan.at) : scan.at[k] <= Len(arr)
        /\ scan.done => scan.st.runs = rle(arr)

\* C16: the scan visits the entries of the group in time order, one per step,
\* and ends after Len(group) visits; every maximal run of true is emitted
\* exactly once, with its full length, at the first false after it or at the
\* end of the group, so that a run reaching the last index is emitted once and
\* a group ending in false emits nothing at its end.
C16_ScanEmitsEachRunOnce == []ScanInvariant /\ <>(scan.done /\ Len(scan.visited) = Len(arr))

\* a finished scan that emitted one run at a false and one at the end of the group
C16_Witness ==
    /\ scan.done
    /\ arr = <<FALSE, TRUE, TRUE, FALSE, FALSE, TRUE>>
    /\ scan.st.runs = <<2, 1>>
    /\ scan.at = <<4, 7>>

RainOnFrozenGround(i) ==
    /\ i > 7
    /\ pr.data[i] > 100
    /\ Celsius(tas)[i] > 0
    /\ \A j \in i - 7 .. i - 1 : Celsius(tas)[j] <= 0

\* C18: rain_on_frozen_ground_days counts day i in its period exactly when
\* pr[i] > thresh, tas[i] > 0 degC and tas <= 0 degC on each of the days
\* i-7..i-1 of the series, whatever periods these lie in; the first seven days
\* of the series are never counted.
C18_RainOnFrozenGroundDays ==
    out.fn = "rain_on_frozen_ground_days" =>
        LET ps == Periods(pr.time, out.freq)
        IN  /\ out.error = ""
            /\ Len(out.value) = Len(ps)
            /\ \A g \in 1 .. Len(ps) :
                  out.value[g] =
                     Cardinality({i \in ps[g][1] .. ps[g][2] : RainOnFrozenGround(i)})
            /\ \A g \in 1 .. Len(ps) : ps[g][2] <= 7 => out.value[g] = 0

\* rain on a mild first day that is not counted, seven days of frost reaching
\* back over earlier periods, one of them at 0 degC, and rain on the mild ninth
\* day that is counted
C18_Witness ==
    /\ out.fn = "rain_on_frozen_ground_days"
    /\ Len(tas.data) = 9
    /\ out.freq = "YS"
    /\ Celsius(tas)[1] > 0
    /\ pr.data[1] > 100
    /\ Celsius(tas)[4] = 0
    /\ RainOnFrozenGround(9)
    /\ out.value = <<0, 0, 1>>

(***************************************************************************)
(* Periods without data                                                    *)
(***************************************************************************)
\* the indicators reporting a run statistic for each period
RunStatisticFns ==
    {"maximum_consecutive_dry_days", "consecutive_frost_days",
     "heat_wave_frequency", "heat_wave_max_length"}

\* no timestamp of the series falls in the period that lies l periods after the first
NoData(l, freq) ==
    \A k \in 1 .. Len(pr.time) :
       PeriodOf(pr.time[k], freq) # PeriodOf(pr.time[1], freq) + l

\* C19 as claimed: the run statistic reported for a period of zero length is
\* the NaN marker, not 0.
C19_EmptyPeriodIsNaN ==
    (out.fn \in RunStatisticFns /\ out.error = "") =>
        /\ Len(out.value) = Cardinality(FullIndex(pr.time, out.freq))
        /\ \A l \in FullIndex(pr.time, out.freq) :
              NoData(l, out.freq) => out.value[l + 1] = NaN

(***************************************************************************)
(* Properties of the seasonal ratios                                       *)
(***************************************************************************)
\* precipitation of the days k of period p that satisfy the daily condition
TotalWhere(p, dayCond) ==
    SeqSum([k \in 1 .. (p[2] - p[1]) + 1 |->
               IF dayCond[p[1] + (k - 1)] THEN pr.data[p[1] + (k - 1)] ELSE 0])

AnyDay == [k \in 1 .. Len(pr.data) |-> TRUE]
SolidDay == [k \in 1 .. Len(tas.data) |-> Celsius(tas)[k] < 0]
LiquidDay == [k \in 1 .. Len(tas.data) |-> Celsius(tas)[k] >= 0]

\* the ratio expected for period p: liquid total over precipitation total
ExpectedRatio(p) == [num |-> TotalWhere(p, LiquidDay), den |-> TotalWhere(p, AnyDay)]

\* the period starts in December
StartsInDecember(p) == PeriodOf(pr.time[p[1]], "QS-DEC") % 4 = 0

RECURSIVE WinterRatios(_)
WinterRatios(ps) ==
    IF ps = <<>> THEN <<>>
    ELSE (IF StartsInDecember(Head(ps)) THEN <<ExpectedRatio(Head(ps))>> ELSE <<>>)
         \o WinterRatios(Tail(ps))

\* C20: without prsn the precipitation of a day is solid exactly when tas is
\* strictly below 0 degC and liquid otherwise; for each period the liquid total
\* is the precipitation total minus the solid total and lies between 0 and the
\* precipitation total; winter_rain_ratio returns the entries of the seasonal
\* result whose period starts in December, in the same order.
C20_LiquidRatioAndWinter ==
    LET ps == Periods(pr.time, "QS-DEC")
    IN  /\ out.fn = "liquid_precip_ratio" =>
             /\ out.error = ""
             /\ Len(out.value) = Len(ps)
             /\ \A g \in 1 .. Len(ps) :
                   /\ out.value[g] = ExpectedRatio(ps[g])
                   /\ out.value[g].num =
                         TotalWhere(ps[g], AnyDay) - TotalWhere(ps[g], SolidDay)
                   /\ 0 <= out.value[g].num
                   /\ out.value[g].num <= out.value[g].den
        /\ out.fn = "winter_rain_ratio" =>
             /\ out.error = ""
             /\ out.value = WinterRatios(ps)
             /\ out.value = mask(liquid_precip_ratio(pr, None, tas, "QS-DEC").value,
                                 [g \in 1 .. Len(ps) |-> StartsInDecember(ps[g])])

\* two winters with different ratios and the seasons between them, the first
\* winter with precipitation on a day at 0 degC
C20_Witness ==
    /\ out.fn = "winter_rain_ratio"
    /\ Len(Periods(pr.time, "QS-DEC")) = 5
    /\ Len(out.value) = 2
    /\ out.value[1] # out.value[2]
    /\ Celsius(tas)[1] = 0
    /\ out.value[1].num > 0
    /\ \E k \in 2 .. 4 : pr.data[k] > 0

(***************************************************************************)
(* Properties relating the statistics of a series to those of its parts    *)
(***************************************************************************)
\* the partitions of s into contiguous non-empty groups, each as the sequence
\* of its groups in order
RECURSIVE Splits(_)
Splits(s) ==
    IF s = <<>> THEN {<<>>}
    ELSE UNION {{<<SubSeq(s, 1, k)>> \o rest : rest \in Splits(SubSeq(s, k + 1, Len(s)))} :
                   k \in 1 .. Len(s)}

\* no run of true has entries in two consecutive groups
NoRunCrosses(parts) ==
    \A g \in 1 .. Len(parts) - 1 :
       ~(parts[g][Len(parts[g])] /\ parts[g + 1][1])

\* no run of true of the daily series cond has days in two periods
NoRunCrossesPeriods(time, freq, cond) ==
    LET ps == Periods(time, freq)
    IN  \A g \in 1 .. Len(ps) - 1 : ~(cond[ps[g][2]] /\ cond[ps[g][2] + 1])

LongestOfParts(parts) == SeqMax([g \in 1 .. Len(parts) |-> longest_run(parts[g])])

EventsOfParts(parts, window) ==
    SeqSum([g \in 1 .. Len(parts) |-> windowed_run_events(parts[g], window)])

\* C21: splitting a series never increases a run statistic.  For every boolean
\* sequence, every partition of it into contiguous groups and every window >= 1
\* the largest longest_run of a group is at most longest_run of the sequence
\* and the windowed_run_events of the groups add up to at most
\* windowed_run_events of the sequence, with equality in both when no run of
\* true crosses a group boundary; so it is for the periods that
\* maximum_consecutive_dry_days and heat_wave_frequency split their daily
\* series into.
C21_SplittingNeverIncreases ==
    /\ out.fn = "longest_run" =>
         \A parts \in Splits(arr) :
            /\ LongestOfParts(parts) <= out.value[1]
            /\ NoRunCrosses(parts) => LongestOfParts(parts) = out.value[1]
    /\ (out.fn = "windowed_run_events" /\ out.error = "") =>
         \A parts \in Splits(arr) :
            /\ EventsOfParts(parts, out.window) <= out.value[1]
            /\ NoRunCrosses(parts) => EventsOfParts(parts, out.window) = out.value[1]
    /\ out.fn = "maximum_consecutive_dry_days" =>
         /\ SeqMax(out.value) <= longest_run(DryDay)
         /\ NoRunCrossesPeriods(pr.time, out.freq, DryDay) =>
               SeqMax(out.value) = longest_run(DryDay)
    /\ (out.fn = "heat_wave_frequency" /\ out.error = "") =>
         /\ SeqSum(out.value) <= windowed_run_events(HeatDay, out.window)
         /\ NoRunCrossesPeriods(tasmin.time, out.freq, HeatDay) =>
               SeqSum(out.value) = windowed_run_events(HeatDay, out.window)

\* a heat wave of three days, two of them in one year and one in the next: the
\* years report fewer heat wave days than the undivided series has
C21_Witness ==
    /\ out.fn = "heat_wave_frequency"
    /\ out.error = ""
    /\ out.window = 2
    /\ Len(out.value) = 2
    /\ ~NoRunCrossesPeriods(tasmin.time, out.freq, HeatDay)
    /\ SeqSum(out.value) = 2
    /\ windowed_run_events(HeatDay, out.window) = 3

\* what the other heat wave indicator returns for the inputs of the call
HeatWaveFrequencyValue ==
    heat_wave_frequency(tasmin, tasmax, HeatThreshTasmin, HeatThreshTasmax,
                        out.window, out.freq).value
HeatWaveMaxLengthValue ==
    heat_wave_max_length(tasmin, tasmax, HeatThreshTasmin, HeatThreshTasmax,
                         out.window, out.freq).value

\* the three reductions agree on whether s has a run of at least window entries
EventExistsAgree(s, window) ==
    /\ (windowed_run_count(s, window) >= 1) <=> (windowed_run_events(s, window) >= window)
    /\ (windowed_run_events(s, window) >= window) <=> (longest_run(s) >= window)
    /\ windowed_run_events(s, window) >= window * windowed_run_count(s, window)

\* C22 as claimed: for every window >= 1 the three reductions agree on whether
\* a period has a qualifying event (windowed_run_count >= 1 iff
\* windowed_run_events >= window iff longest_run >= window, and
\* windowed_run_events >= window * windowed_run_count), and for the same
\* inputs, window and freq heat_wave_max_length is non-zero for a period
\* exactly when heat_wave_frequency is non-zero for it.
C22_ReductionsAgree ==
    (out.fn \in {"heat_wave_frequency", "heat_wave_max_length"} /\ out.window >= 1) =>
        LET cond  == heat_wave_cond(tasmin, tasmax, HeatThreshTasmin, HeatThreshTasmax)
            group == resample(tasmin.time, cond, out.freq)
        IN  /\ \A g \in 1 .. Len(group) : EventExistsAgree(group[g], out.window)
            /\ Len(HeatWaveMaxLengthValue) = Len(HeatWaveFrequencyValue)
            /\ \A g \in 1 .. Len(group) :
                  (HeatWaveMaxLengthValue[g] # 0) <=> (HeatWaveFrequencyValue[g] # 0)

(***************************************************************************)
(* Properties of the order of the steps of the percentile indicators       *)
(***************************************************************************)
\* the steps that prepare the threshold, in the order claimed
PipelineSteps == <<"check_doy", "convert_units", "adjust_doy", "sel">>

\* the steps of the call that prepare the threshold, in the order performed
PreparationOf(steps) ==
    SelectSeq(steps, LAMBDA x : x \in {PipelineSteps[k] : k \in 1 .. Len(PipelineSteps)})

\* the call reached its comparison
Compared(steps) == \E k \in 1 .. Len(steps) : steps[k] \in {"above", "below"}

\* C23 as claimed: every percentile-based indicator performs, in this order and
\* before it compares, (1) the check of the dayofyear coordinate, (2) the
\* conversion of the curve to the units of the target series, (3) the
\* adjustment of the curve to the target's calendar, (4) the selection of one
\* threshold per timestamp; so the comparison is made with the threshold in
\* the units of the target, by warm_spell_duration_index for tx90 as by
\* cold_spell_duration_index for tn10.
C23_SameOrderedSteps ==
    out.fn \in PercentileFns =>
        LET done == PreparationOf(out.steps)
        IN  /\ done = SubSeq(PipelineSteps, 1, Len(done))
            /\ Compared(out.steps) =>
                  /\ done = PipelineSteps
                  /\ \A k \in 1 .. Len(out.steps) :
                        out.steps[k] \in {"above", "below"} =>
                           PreparationOf(SubSeq(out.steps, 1, k)) = PipelineSteps
            /\ out.error = "" =>
                  \A i \in 1 .. Len(TargetDoy) :
                     out.thresh[i] = AlignedAt(CurveInUnitsOf(Target(out.fn)), TargetDoy[i])

====
